---- MODULE Spec2Model ----
(***************************************************************************)
(* skippable_map: SkippableMap<K, V>, a wrapper around HashMap<K, V> whose  *)
(* Deserialize skips every entry that next_entry() reports as an error.    *)
(*                                                                         *)
(* The model instantiates the crate as in its doc test,                    *)
(* SkippableMap<String, u64>, and runs up to two invocations of            *)
(* Deserialize::deserialize, each over its own input.  An input is a shape *)
(* (map, seq or scalar) and, for a map, a finite sequence of raw entries   *)
(* followed by a terminator: the end of the map ("end"), a point where the *)
(* stream is broken and every further request fails ("fatal", as a         *)
(* truncated document does), or a failure the source reports once before   *)
(* it reports the end ("fatal_once").                                      *)
(***************************************************************************)
EXTENDS Integers, Sequences, FiniteSets, TLC

\* ------------------------------------------------------------- bounds
\* Longest entry sequence of an input of the single-invocation runs.
MaxLen == 3
\* Longest entry sequence of an input when two invocations run interleaved.
ConcLen == 2
\* Longest entry sequence of an input whose decoded wrapper the caller uses.
WrapLen == 2
\* Largest size hint a source reports.
MaxHint == 1
\* The request counter stops counting here (one past the last request a
\* terminating decode can make over the longest input, plus one).
MaxRequests == MaxLen + 2

Invocations == {1, 2}

VARIABLES
    shape,      \* shape[i]: what the input of invocation i is: "map", "seq", "scalar"
    src,        \* src[i]: the raw entries of the input, in order
    term,       \* term[i]: what follows the entries: "end", "fatal", "fatal_once"
    hint,       \* hint[i]: access.size_hint(): <<>> is None, <<n>> is Some(n)
    pos,        \* pos[i]: how many entries the source has handed out
    requests,   \* requests[i]: how many times next_entry() was called
    pc,         \* pc[i]: "off", "start", "call", "match", "done", "failed"
    r,          \* r[i]: the outcome of the last next_entry(), while it is matched
    map,        \* map[i]: the local `map` of visit_map
    result,     \* result[i]: what deserialize returned
    caller      \* caller[i]: the SkippableMap the caller holds, and what it got from it

vars == <<shape, src, term, hint, pos, requests, pc, r, map, result, caller>>

\* ------------------------------------------------------------- raw input
\* A raw token of the input: a string (an index into Names) or an integer.
Tok(kind, n) == [kind |-> kind, n |-> n]

Names == <<"number", "other_number">>

RawKeys == {Tok("str", 1), Tok("str", 2), Tok("int", 7)}
RawValues == {Tok("int", 1), Tok("int", 2), Tok("int", -44)}

Pair(k, v) == [shape |-> "pair", k |-> k, v |-> v]
\* An entry that is not a key/value pair at all.
Malformed == [shape |-> "malformed", k |-> Tok("none", 0), v |-> Tok("none", 0)]

RawEntries == {Pair(k, v) : k \in RawKeys, v \in RawValues} \cup {Malformed}
\* The entries two interleaved invocations draw from.
ConcEntries == {Pair(Tok("str", 1), Tok("int", 1)), Pair(Tok("str", 2), Tok("int", -44))}

SeqsUpTo(S, n) == UNION {[1..m -> S] : m \in 0..n}

Shapes == {"map", "seq", "scalar"}
Terms == {"end", "fatal", "fatal_once"}
\* The terminators of the inputs of two interleaved invocations.
ConcTerms == {"end", "fatal"}
Hints == {<<>>} \cup {<<n>> : n \in 0..MaxHint}

\* ------------------------------------------------------------- decoding K and V
\* String::deserialize: a string token decodes to its text, nothing else does.
DecodeK(t) ==
    IF t.kind = "str" THEN [ok |-> TRUE, val |-> Names[t.n]]
    ELSE [ok |-> FALSE, val |-> ""]

\* u64::deserialize: a non-negative integer token decodes to its value (the
\* tokens of the model are far below u64::MAX), nothing else does.
DecodeV(t) ==
    IF t.kind = "int" /\ t.n >= 0 THEN [ok |-> TRUE, val |-> t.n]
    ELSE [ok |-> FALSE, val |-> 0]

\* ------------------------------------------------------------- the entry source
Idle == [tag |-> "idle", key |-> "", value |-> 0, kind |-> ""]
OkSome(k, v) == [tag |-> "OkSome", key |-> k, value |-> v, kind |-> ""]
OkNone == [tag |-> "OkNone", key |-> "", value |-> 0, kind |-> ""]
Err(kind) == [tag |-> "Err", key |-> "", value |-> 0, kind |-> kind]

\* Whether the raw entry e decodes as a (K, V) pair.
Decodes(e) == e.shape = "pair" /\ DecodeK(e.k).ok /\ DecodeV(e.v).ok

\* access.next_entry() of a source that has handed out p of the entries s and
\* ends with t: the next entry decoded as a unit, or the terminator.
NextEntryAt(s, t, p) ==
    IF p < Len(s)
    THEN IF Decodes(s[p + 1])
         THEN OkSome(DecodeK(s[p + 1].k).val, DecodeV(s[p + 1].v).val)
         ELSE Err("entry")
    ELSE IF t = "end" THEN OkNone
    ELSE IF t = "fatal" THEN Err("fatal")
    ELSE IF p = Len(s) THEN Err("fatal") ELSE OkNone

\* The source moves past an entry it has handed out, decoded or not, and past
\* a failure it reports once; at the end of the map and at a broken stream it
\* stays where it is.
Advance(s, t, p) ==
    IF p < Len(s) \/ (t = "fatal_once" /\ p = Len(s)) THEN p + 1 ELSE p

\* ------------------------------------------------------------- HashMap
\* A HashMap<String, u64>: its capacity and its entries, a set of <<key, value>>.
\* Option::unwrap_or.
UnwrapOr(h, d) == IF h = <<>> THEN d ELSE h[1]

WithCapacity(n) == [cap |-> n, entries |-> {}]

Max(a, b) == IF a >= b THEN a ELSE b

\* Mutation: the earlier entry of the key is kept.
InsertKeepFirst(m, k, v) ==
    IF \E p \in m.entries : p[1] = k THEN m
    ELSE [cap |-> Max(m.cap, Cardinality(m.entries) + 1), entries |-> m.entries \cup {<<k, v>>}]

\* Mutation: the entry of an equal key is not replaced.
InsertNoReplace(m, k, v) ==
    [cap |-> Max(m.cap, Cardinality(m.entries \cup {<<k, v>>})),
     entries |-> m.entries \cup {<<k, v>>}]

\* Mutation: a full map does not grow.
InsertNoGrow(m, k, v) ==
    LET kept == {p \in m.entries : p[1] # k}
    IN  IF Cardinality(kept) < m.cap THEN [m EXCEPT !.entries = kept \cup {<<k, v>>}]
        ELSE m

\* map.insert(key, value): the entry of an equal key is replaced, and the map
\* grows when it is full.
Insert(m, k, v) ==
    LET kept == {p \in m.entries : p[1] # k}
    IN  [cap |-> Max(m.cap, Cardinality(kept) + 1), entries |-> kept \cup {<<k, v>>}]

\* ------------------------------------------------------------- results
NoResult == [tag |-> "none", map |-> {}, err |-> <<>>]
Ok(entries) == [tag |-> "Ok", map |-> entries, err |-> <<>>]
Failure(msg) == [tag |-> "Err", map |-> {}, err |-> msg]

\* Visitor::expecting, with K = String and V = u64.
Expecting == "a data structure which contains some mappings from String to u64"

\* ------------------------------------------------------------- the visitor
\* Mutation: the visitor answers any input with an empty map.
VisitOtherEmpty(sh) == Ok({})

\* The visitor implements visit_map only: every other shape the deserializer
\* finds is refused with the visitor's expecting().
VisitOther(sh) == Failure(<<"invalid type", sh, Expecting>>)

\* Mutation: an error ends the decode.
ArmStrict(o) ==
    IF o.tag = "OkSome" THEN "insert" ELSE "return"

\* Mutation: an error of the stream ends the decode.
ArmFatalReturns(o) ==
    IF o.tag = "OkSome" THEN "insert"
    ELSE IF o.tag = "Err" /\ o.kind = "entry" THEN "skip"
    ELSE "return"

\* Mutation: an entry that does not decode is inserted with default key and value.
ArmErrInserts(o) ==
    IF o.tag \in {"OkSome", "Err"} THEN "insert" ELSE "return"

\* The arm `match r` takes.
Arm(o) ==
    IF o.tag = "OkSome" THEN "insert"
    ELSE IF o.tag = "Err" THEN "skip"
    ELSE "return"

\* Mutation: an error empties the accumulator.
SkippedClears(m) == WithCapacity(m.cap)

\* The body of the Err(_) arm, `{}`: the accumulator is left as it is.
Skipped(m) == m

\* Mutation: an empty map is returned as a failure.
ReturnedNonEmpty(m) ==
    IF m.entries = {} THEN Failure(<<"empty map">>) ELSE Ok(m.entries)

\* return Ok(SkippableMap(map));
Returned(m) == Ok(m.entries)

\* Mutation: all invocations share one accumulator.
SlotShared(i) == 1

\* The accumulator of invocation i: a local of its own call of visit_map.
Slot(i) == i

\* ------------------------------------------------------------- the wrapper
\* pub struct SkippableMap<K, V>(pub HashMap<K, V>): a struct of one field, .0.
SkippableMap(m) == <<m>>

\* Mutation: the wrapper hands out a fresh map.
innerEmpty(w) == {}

\* SkippableMap::inner: self.0
inner(w) == w[1]

\* From<SkippableMap<K, V>> for HashMap<K, V>: value.0
From(w) == w[1]

\* AsRef<HashMap<K, V>>: &self.0
as_ref(w) == w[1]

\* What a serializer is asked to write: a map of entries, or a newtype struct
\* of a name around a map.
SerMap(m) == [kind |-> "map", name |-> "", entries |-> m]
SerNewtypeStruct(name, m) == [kind |-> "newtype_struct", name |-> name, entries |-> m]

\* Serialize for HashMap<K, V>.
SerializeHashMap(m) == SerMap(m)

\* Mutation: derive(Serialize) without serde(transparent).
SerializeNewtype(w) == SerNewtypeStruct("SkippableMap", w[1])

\* derive(Serialize) with serde(transparent): the one field is serialized.
Serialize(w) == SerializeHashMap(w[1])

\* The caller before deserialize has returned to it.
NoWrapper ==
    [state |-> "none", wrapper |-> SkippableMap({}), as_ref |-> <<>>,
     owned |-> <<>>, encoded |-> <<>>]

\* ------------------------------------------------------------- actions
\* deserialize on a map: deserialize_map calls visit_map, which allocates `map`.
DeserializeMap(i) ==
    /\ pc[i] = "start"
    /\ shape[i] = "map"
    /\ map' = [map EXCEPT ![Slot(i)] = WithCapacity(UnwrapOr(hint[i], 0))]
    /\ pc' = [pc EXCEPT ![i] = "call"]
    /\ UNCHANGED <<shape, src, term, hint, pos, requests, r, result, caller>>

\* deserialize on anything else: visit_map is not called.
DeserializeOther(i) ==
    /\ pc[i] = "start"
    /\ shape[i] # "map"
    /\ result' = [result EXCEPT ![i] = VisitOther(shape[i])]
    /\ pc' = [pc EXCEPT ![i] = IF result'[i].tag = "Ok" THEN "done" ELSE "failed"]
    /\ UNCHANGED <<shape, src, term, hint, pos, requests, r, map, caller>>

\* let r = access.next_entry();
NextEntry(i) ==
    /\ pc[i] = "call"
    /\ r' = [r EXCEPT ![i] = NextEntryAt(src[i], term[i], pos[i])]
    /\ pos' = [pos EXCEPT ![i] = Advance(src[i], term[i], pos[i])]
    /\ requests' = [requests EXCEPT ![i] = IF @ < MaxRequests THEN @ + 1 ELSE @]
    /\ pc' = [pc EXCEPT ![i] = "match"]
    /\ UNCHANGED <<shape, src, term, hint, map, result, caller>>

\* Ok(Some((key, value))) => { map.insert(key, value); }
MatchInsert(i) ==
    /\ pc[i] = "match"
    /\ Arm(r[i]) = "insert"
    /\ map' = [map EXCEPT ![Slot(i)] = Insert(map[Slot(i)], r[i].key, r[i].value)]
    /\ r' = [r EXCEPT ![i] = Idle]
    /\ pc' = [pc EXCEPT ![i] = "call"]
    /\ UNCHANGED <<shape, src, term, hint, pos, requests, result, caller>>

\* Err(_) => {}
MatchSkip(i) ==
    /\ pc[i] = "match"
    /\ Arm(r[i]) = "skip"
    /\ map' = [map EXCEPT ![Slot(i)] = Skipped(map[Slot(i)])]
    /\ r' = [r EXCEPT ![i] = Idle]
    /\ pc' = [pc EXCEPT ![i] = "call"]
    /\ UNCHANGED <<shape, src, term, hint, pos, requests, result, caller>>

\* Ok(None) => { return Ok(SkippableMap(map)); }
MatchReturn(i) ==
    /\ pc[i] = "match"
    /\ Arm(r[i]) = "return"
    /\ result' = [result EXCEPT ![i] = Returned(map[Slot(i)])]
    /\ r' = [r EXCEPT ![i] = Idle]
    /\ pc' = [pc EXCEPT ![i] = IF result'[i].tag = "Ok" THEN "done" ELSE "failed"]
    /\ UNCHANGED <<shape, src, term, hint, pos, requests, map, caller>>

\* let just_numbers: SkippableMap<String, u64> = from_str(json).unwrap();
Bind(i) ==
    /\ pc[i] = "done"
    /\ caller[i].state = "none"
    /\ caller' = [caller EXCEPT ![i].state = "live",
                                 ![i].wrapper = SkippableMap(result[i].map)]
    /\ UNCHANGED <<shape, src, term, hint, pos, requests, pc, r, map, result>>

\* just_numbers.as_ref()
CallAsRef(i) ==
    /\ caller[i].state = "live"
    /\ caller' = [caller EXCEPT ![i].as_ref = <<as_ref(caller[i].wrapper)>>]
    /\ UNCHANGED <<shape, src, term, hint, pos, requests, pc, r, map, result>>

\* just_numbers.inner(): the wrapper is moved.
CallInner(i) ==
    /\ caller[i].state = "live"
    /\ caller' = [caller EXCEPT ![i].state = "moved",
                                 ![i].owned = <<"inner", inner(caller[i].wrapper)>>]
    /\ UNCHANGED <<shape, src, term, hint, pos, requests, pc, r, map, result>>

\* HashMap::from(just_numbers): the wrapper is moved.
CallFrom(i) ==
    /\ caller[i].state = "live"
    /\ caller' = [caller EXCEPT ![i].state = "moved",
                                 ![i].owned = <<"from", From(caller[i].wrapper)>>]
    /\ UNCHANGED <<shape, src, term, hint, pos, requests, pc, r, map, result>>

\* just_numbers.serialize(serializer)
CallSerialize(i) ==
    /\ caller[i].state = "live"
    /\ caller' = [caller EXCEPT ![i].encoded = <<Serialize(caller[i].wrapper)>>]
    /\ UNCHANGED <<shape, src, term, hint, pos, requests, pc, r, map, result>>

Use(i) ==
    \/ Bind(i)
    \/ CallAsRef(i)
    \/ CallInner(i)
    \/ CallFrom(i)
    \/ CallSerialize(i)

Step(i) ==
    \/ DeserializeMap(i)
    \/ DeserializeOther(i)
    \/ NextEntry(i)
    \/ MatchInsert(i)
    \/ MatchSkip(i)
    \/ MatchReturn(i)

Next == \E i \in Invocations : Step(i)

\* ------------------------------------------------------------- specifications
\* An input: a map with its entries, terminator and size hint, or a non-map.
Inputs(entries, n, terms) ==
    {[shape |-> "map", src |-> s, term |-> t, hint |-> h] :
        s \in SeqsUpTo(entries, n), t \in terms, h \in Hints}
    \cup {[shape |-> sh, src |-> <<>>, term |-> "end", hint |-> <<>>] :
        sh \in Shapes \ {"map"}}

InitWith(in1, in2, pc2) ==
    /\ shape = (1 :> in1.shape @@ 2 :> in2.shape)
    /\ src = (1 :> in1.src @@ 2 :> in2.src)
    /\ term = (1 :> in1.term @@ 2 :> in2.term)
    /\ hint = (1 :> in1.hint @@ 2 :> in2.hint)
    /\ pos = [i \in Invocations |-> 0]
    /\ requests = [i \in Invocations |-> 0]
    /\ pc = (1 :> "start" @@ 2 :> pc2)
    /\ r = [i \in Invocations |-> Idle]
    /\ map = [i \in Invocations |-> WithCapacity(0)]
    /\ result = [i \in Invocations |-> NoResult]
    /\ caller = [i \in Invocations |-> NoWrapper]

NoInput == [shape |-> "map", src |-> <<>>, term |-> "end", hint |-> <<>>]

\* One invocation, over any input.
Init == \E in1 \in Inputs(RawEntries, MaxLen, Terms) : InitWith(in1, NoInput, "off")

Spec == Init /\ [][Next]_vars

\* One invocation that keeps running: a call of deserialize is synchronous
\* code, it is not suspended for ever while it has a step to take.
FairSpec == Spec /\ WF_vars(Step(1))

\* Two invocations, each over its own input, interleaved in any order.
ConcInit ==
    \E in1, in2 \in Inputs(ConcEntries, ConcLen, ConcTerms) :
        InitWith(in1, in2, "start")

ConcSpec == ConcInit /\ [][Next]_vars

\* One invocation, and a caller that uses the SkippableMap it returns.
WrapInit == \E in1 \in Inputs(RawEntries, WrapLen, Terms) : InitWith(in1, NoInput, "off")

WrapNext == \E i \in Invocations : Step(i) \/ Use(i)

WrapSpec == WrapInit /\ [][WrapNext]_vars

\* ------------------------------------------------------------- properties
Terminal == {"done", "failed"}

\* The decoded key and value of a raw entry that decodes.
KeyOf(e) == DecodeK(e.k).val
ValueOf(e) == DecodeV(e.v).val

\* Entry j of s decodes and no later entry of s decodes to the same key.
LastForKey(s, j) ==
    /\ Decodes(s[j])
    /\ \A l \in (j + 1)..Len(s) : Decodes(s[l]) => KeyOf(s[l]) # KeyOf(s[j])

\* The mapping the entries s stand for: the entries that decode, each key with
\* the value of the last entry that decodes to it.
Expected(s) ==
    {<<KeyOf(s[j]), ValueOf(s[j])>> : j \in {l \in 1..Len(s) : LastForKey(s, l)}}

\* The source of invocation i has answered a request with its fatal error.
FatalReported(i) ==
    /\ term[i] \in {"fatal", "fatal_once"}
    /\ requests[i] > Len(src[i])

\* C1: once the source has answered a request with a fatal error and that
\* answer has been matched, the decode has failed and returned an error: it
\* is not back in the loop and has not returned a mapping.
C1_FatalErrorFails ==
    \A i \in Invocations :
        (FatalReported(i) /\ pc[i] # "match")
            => (pc[i] = "failed" /\ result[i].tag = "Err")

\* C2: a decode of entries followed by end-of-data returns exactly the entries
\* whose key and value both decoded, one per key.
C2_ExactlyDecodedEntries ==
    \A i \in Invocations :
        (pc[i] \in Terminal /\ shape[i] = "map" /\ term[i] = "end")
            => result[i] = Ok(Expected(src[i]))

\* A decode has returned a non-empty mapping from entries of which one decoded
\* and another did not.
C2_Witness ==
    /\ pc[1] = "done"
    /\ term[1] = "end"
    /\ result[1].map # {}
    /\ \E j, l \in 1..Len(src[1]) : Decodes(src[1][j]) /\ ~Decodes(src[1][l])

\* C3: matching an entry-level error leaves the decode in its loop, about to
\* request the next entry, with the accumulated mapping as it was and nothing
\* returned; no map-shaped input ever gets an error as its result.
C3_EntryErrorSkipped ==
    [][\A i \in Invocations :
        /\ (pc[i] = "match" /\ r[i] = Err("entry") /\ pc'[i] # pc[i])
             => /\ pc'[i] = "call"
                /\ map'[i] = map[i]
                /\ result'[i] = NoResult
                /\ pos'[i] = pos[i]
        /\ (shape[i] = "map" => result'[i].tag # "Err")]_vars

\* A decode has returned after skipping a malformed entry, an entry whose key
\* does not decode and an entry whose value does not decode.
C3_Witness ==
    /\ pc[1] = "done"
    /\ Len(src[1]) = 3
    /\ \E j \in 1..3 : src[1][j] = Malformed
    /\ \E j \in 1..3 : src[1][j].shape = "pair" /\ ~DecodeK(src[1][j].k).ok
    /\ \E j \in 1..3 :
          src[1][j].shape = "pair" /\ DecodeK(src[1][j].k).ok /\ ~DecodeV(src[1][j].v).ok

\* C4: when two entries decode to equal keys, the returned mapping has exactly
\* one entry for that key, and its value is that of the later one (of the last
\* one, when more than two entries decode to the key).
C4_LastWriteWins ==
    \A i \in Invocations :
        pc[i] = "done" =>
            \A j, l \in 1..Len(src[i]) :
                (j < l /\ Decodes(src[i][j]) /\ LastForKey(src[i], l)
                       /\ KeyOf(src[i][j]) = KeyOf(src[i][l]))
                    => /\ Cardinality({p \in result[i].map : p[1] = KeyOf(src[i][l])}) = 1
                       /\ <<KeyOf(src[i][l]), ValueOf(src[i][l])>> \in result[i].map

\* A decode has returned after two entries with equal keys and different
\* values, with an entry that does not decode between them.
C4_Witness ==
    /\ pc[1] = "done"
    /\ Len(src[1]) = 3
    /\ Decodes(src[1][1]) /\ ~Decodes(src[1][2]) /\ Decodes(src[1][3])
    /\ KeyOf(src[1][1]) = KeyOf(src[1][3])
    /\ ValueOf(src[1][1]) # ValueOf(src[1][3])

\* A strict decode of a map, HashMap<String, u64>'s own: the first entry that
\* does not decode, or a failure of the source, fails the whole decode.
\* StrictMap(s, j) is the mapping (a function) of the first j entries of s.
RECURSIVE StrictMap(_, _)
StrictMap(s, j) ==
    IF j = 0 THEN <<>>
    ELSE (KeyOf(s[j]) :> ValueOf(s[j])) @@ StrictMap(s, j - 1)

StrictDecode(s, t) ==
    IF \E j \in 1..Len(s) : ~Decodes(s[j]) THEN Failure(<<"entry">>)
    ELSE IF t # "end" THEN Failure(<<"fatal">>)
    ELSE Ok({<<k, StrictMap(s, Len(s))[k]>> : k \in DOMAIN StrictMap(s, Len(s))})

\* C5: when every entry of the input decodes and a strict decode of the input
\* returns a mapping, the tolerant decode returns that same mapping.
C5_AgreesWithStrict ==
    \A i \in Invocations :
        (/\ pc[i] \in Terminal
         /\ shape[i] = "map"
         /\ StrictDecode(src[i], term[i]).tag = "Ok")
            => result[i] = StrictDecode(src[i], term[i])

\* A decode has returned from three entries that all decode, two of them to
\* the same key.
C5_Witness ==
    /\ pc[1] = "done"
    /\ term[1] = "end"
    /\ Len(src[1]) = 3
    /\ \A j \in 1..3 : Decodes(src[1][j])
    /\ Cardinality(result[1].map) = 2

\* C6: a map with no entries never decodes to an error, and once its first
\* request has been answered and matched the decode has returned the empty
\* mapping.
C6_EmptyInputEmptyMap ==
    \A i \in Invocations :
        (shape[i] = "map" /\ src[i] = <<>> /\ term[i] = "end")
            => /\ pc[i] # "failed"
               /\ result[i].tag # "Err"
               /\ (requests[i] >= 1 /\ pc[i] # "match")
                    => (pc[i] = "done" /\ result[i] = Ok({}) /\ requests[i] = 1)

\* A decode of a map with no entries has returned.
C6_Witness ==
    /\ pc[1] \in Terminal
    /\ shape[1] = "map"
    /\ src[1] = <<>>
    /\ term[1] = "end"

\* C7: every decode eventually returns.
C7_Terminates == <>(pc[1] \in Terminal)

\* Invocations i and j are given the same input, size hint apart.
SameInput(i, j) ==
    shape[i] = shape[j] /\ src[i] = src[j] /\ term[i] = term[j]

C9_NonMapRefused ==
    \A i \in Invocations :
        shape[i] # "map"
            => /\ pc[i] \in {"off", "start", "failed"}
               /\ requests[i] = 0
               /\ result[i].tag # "Ok"
               /\ pc[i] = "failed"
                    => result[i] = Failure(<<"invalid type", shape[i], Expecting>>)

\* A decode of a sequence has failed.
C9_Witness ==
    /\ shape[1] = "seq"
    /\ pc[1] = "failed"
    /\ result[1].tag = "Err"

\* What visit_map, run alone over the first p entries of s, has accumulated
\* in m.
RECURSIVE Alone(_, _, _)
Alone(s, p, m) ==
    IF p = 0 THEN m
    ELSE LET o == NextEntryAt(s, "end", p - 1)
             before == Alone(s, p - 1, m)
         IN  IF Arm(o) = "insert" THEN Insert(before, o.key, o.value) ELSE before

\* The entries of s the source of invocation i has handed out and visit_map
\* has matched.
Matched(i) ==
    LET handed == IF pos[i] > Len(src[i]) THEN Len(src[i]) ELSE pos[i]
    IN  IF pc[i] = "match" /\ r[i].tag # "OkNone" /\ ~FatalReported(i)
        THEN handed - 1 ELSE handed

\* C10: at every point of every interleaving of two decodes, the accumulator
\* of each holds what a decode running alone over its own input would hold
\* there, and each returns what it would return alone.
C10_Independent ==
    \A i \in Invocations :
        (shape[i] = "map" /\ pc[i] \in {"call", "match", "done"})
            => /\ map[i] = Alone(src[i], Matched(i), WithCapacity(UnwrapOr(hint[i], 0)))
               /\ pc[i] = "done"
                    => result[i] = Ok(Alone(src[i], Len(src[i]), WithCapacity(0)).entries)

\* Two decodes are both under way, one with entries accumulated and the other
\* with none.
C10_Witness ==
    /\ pc[1] = "call" /\ pc[2] = "call"
    /\ pos[1] >= 1 /\ pos[2] >= 1
    /\ map[1].entries # {}
    /\ map[2].entries = {}

\* C11: whatever the caller got from the wrapper is the wrapped mapping: what
\* as_ref exposed, what inner returned and what the From conversion returned
\* all equal the mapping deserialize returned; as_ref and serialize leave the
\* wrapper in place with that mapping, and only inner and From move it.
C11_AccessorsAgree ==
    \A i \in Invocations :
        caller[i].state # "none"
            => /\ caller[i].as_ref # <<>> => caller[i].as_ref[1] = result[i].map
               /\ caller[i].owned # <<>> => caller[i].owned[2] = result[i].map
               /\ (caller[i].as_ref # <<>> /\ caller[i].owned # <<>>)
                    => caller[i].owned[2] = caller[i].as_ref[1]
               /\ caller[i].state = "live" => caller[i].wrapper = SkippableMap(result[i].map)
               /\ (caller[i].state = "moved") = (caller[i].owned # <<>>)

\* The caller has looked at a non-empty mapping through as_ref and has then
\* taken it out of the wrapper with inner.
C11_Witness ==
    /\ caller[1].state = "moved"
    /\ caller[1].as_ref # <<>>
    /\ caller[1].owned # <<>>
    /\ caller[1].owned[1] = "inner"
    /\ Cardinality(result[1].map) = 2

\* C12: what the wrapper serializes is what its mapping serializes: a map of
\* the same entries, with no struct around it.
C12_TransparentEncode ==
    \A i \in Invocations :
        caller[i].encoded # <<>>
            => /\ caller[i].encoded[1] = SerializeHashMap(result[i].map)
               /\ caller[i].encoded[1].kind = "map"

\* A wrapper of a non-empty mapping has been serialized.
C12_Witness ==
    /\ caller[1].encoded # <<>>
    /\ caller[1].encoded[1].entries # {}

\* C13: a decode becomes DONE only in the step that matches the source's
\* end-of-data, and what it returns is the mapping accumulated until then; a
\* decode that is DONE or FAILED takes no further step: it makes no request
\* and changes nothing.
C13_DoneOnlyAtEnd ==
    [][\A i \in Invocations :
        /\ (pc'[i] = "done" /\ pc[i] # "done")
             => /\ pc[i] = "match"
                /\ r[i] = OkNone
                /\ result'[i] = Ok(map[i].entries)
        /\ pc[i] \in Terminal
             => /\ pc'[i] = pc[i]
                /\ result'[i] = result[i]
                /\ requests'[i] = requests[i]
                /\ pos'[i] = pos[i]
                /\ map'[i] = map[i]
                /\ r'[i] = r[i]]_vars

\* A decode of three entries has returned a non-empty mapping on its fourth
\* request.
C13_Witness ==
    /\ pc[1] = "done"
    /\ term[1] = "end"
    /\ Len(src[1]) = 3
    /\ requests[1] = 4
    /\ result[1].map # {}

\* The entries of s among the first p that decode.
DecodedUpTo(s, p) == {j \in 1..p : j <= Len(s) /\ Decodes(s[j])}

\* C14: at every point of a decode every entry of the accumulator is the key
\* and value of an entry the source has handed out and that decoded, and the
\* accumulator has no more entries than the source has handed out entries
\* that decoded.
C14_AccumulatorFromSource ==
    \A i \in Invocations :
        /\ \A p \in map[i].entries :
              \E j \in DecodedUpTo(src[i], pos[i]) :
                  p = <<KeyOf(src[i][j]), ValueOf(src[i][j])>>
        /\ Cardinality(map[i].entries) <= Cardinality(DecodedUpTo(src[i], pos[i]))

\* A decode is under way with two entries accumulated and an entry that did
\* not decode behind it.
C14_Witness ==
    /\ pc[1] = "call"
    /\ pos[1] = 3
    /\ Cardinality(map[1].entries) = 2
    /\ ~Decodes(src[1][2])

\* C15: a decode makes at most one request per entry and one more, and the
\* source has handed out no more entries than it was asked for.
C15_ConsumedOnce ==
    \A i \in Invocations :
        /\ requests[i] <= Len(src[i]) + 1
        /\ pos[i] <= requests[i]

\* C16: a map-shaped input never gets an error as its result; a result is set
\* only in the step that matches Ok(None), and it is Ok; and the step that
\* matches an Err, of an entry or of the stream, goes back to the call of
\* next_entry.
C16_SingleExit ==
    [][\A i \in Invocations :
        shape[i] = "map"
            => /\ result'[i].tag # "Err"
               /\ pc'[i] # "failed"
               /\ result'[i] # result[i]
                    => (pc[i] = "match" /\ r[i] = OkNone /\ result'[i].tag = "Ok")
               /\ (pc[i] = "match" /\ r[i].tag = "Err" /\ pc'[i] # pc[i])
                    => (pc'[i] = "call" /\ result'[i] = NoResult)]_vars

\* After a fatal error of the source was matched, next_entry has been called
\* again.
C16_Witness ==
    /\ FatalReported(1)
    /\ pc[1] = "match"
    /\ requests[1] = Len(src[1]) + 2
    /\ Len(src[1]) >= 1

\* C17: when an entry decodes and a later entry with the same raw key does not,
\* the returned mapping still has the key, with the value of the last entry
\* that decoded to it.
C17_FailedEntryKeepsKey ==
    \A i \in Invocations :
        pc[i] = "done" =>
            \A j, l \in 1..Len(src[i]) :
                (/\ j < l
                 /\ Decodes(src[i][j])
                 /\ ~Decodes(src[i][l])
                 /\ src[i][l].shape = "pair"
                 /\ src[i][l].k = src[i][j].k)
                    => \E n \in 1..Len(src[i]) :
                          /\ LastForKey(src[i], n)
                          /\ KeyOf(src[i][n]) = KeyOf(src[i][j])
                          /\ {p \in result[i].map : p[1] = KeyOf(src[i][j])}
                                = {<<KeyOf(src[i][n]), ValueOf(src[i][n])>>}

\* A decode has returned after an entry that decoded was followed by an entry
\* of the same key whose value did not decode, with nothing after it.
C17_Witness ==
    /\ pc[1] = "done"
    /\ Len(src[1]) = 2
    /\ Decodes(src[1][1])
    /\ src[1][2].shape = "pair"
    /\ src[1][2].k = src[1][1].k
    /\ ~DecodeV(src[1][2].v).ok
    /\ result[1].map = {<<KeyOf(src[1][1]), ValueOf(src[1][1])>>}

====
